---- MODULE Spec2Model ----
(***************************************************************************)
(* Ledger core of the Banking_System Django application                    *)
(* (accounts/views.py): account creation, deposit, withdrawal and the      *)
(* two-account transfer run under django.db.transaction.atomic().          *)
(*                                                                         *)
(* Two specifications share the operators below.                           *)
(*   Spec     - requests served one at a time; every action is one whole   *)
(*              view function.                                             *)
(*   SpecConc - requests served concurrently; every action is one          *)
(*              statement of a view against the shared database.           *)
(* Decimal amounts are modelled by small integers.                         *)
(***************************************************************************)
EXTENDS Integers, FiniteSets, Sequences, TLC

\* ------------------------------------------------------------------ bounds
MaxAccounts == 2      \* account numbers that may ever be issued
MaxAmount   == 2      \* largest amount a form submits
MaxBalance  == 6      \* deposits that would exceed it are not submitted
MaxClock    == 4      \* Transaction rows that may ever be inserted (Spec)
MaxWithdrawal == 3    \* largest amount a withdrawal form submits (Spec)

\* --------------------------------------------------------- program values
\* Account.get_minimum_balance() of the two variants (accounts/models.py):
\* a positive floor for savings accounts, zero for current accounts.
SAVINGS_MINIMUM_BALANCE == 2
CURRENT_MINIMUM_BALANCE == 0

Customers      == {"alice", "bob"}
AccountNumbers == 1 .. MaxAccounts
Amounts        == 0 .. MaxAmount
WithdrawalAmounts == 0 .. MaxWithdrawal
AccountTypes   == {"savings", "current"}

DEPOSIT      == "DEPOSIT"
WITHDRAWAL   == "WITHDRAWAL"
TRANSFER_IN  == "TRANSFER_IN"
TRANSFER_OUT == "TRANSFER_OUT"

\* An unused account number: no row in either account table.
NoAccount == [kind |-> "none", customer |-> "none", balance |-> 0, is_active |-> FALSE]

\* Transaction.description: the text set at creation, or the text written by
\* the transfer ("Transfer to <n>: ..." / "Transfer from <n>: ...").
PlainDescription     == [text |-> "plain", ref |-> 0]
TransferTo(n)        == [text |-> "Transfer to", ref |-> n]
TransferFrom(n)      == [text |-> "Transfer from", ref |-> n]

VARIABLES
    accounts,      \* committed account rows: account number -> row
    transactions,  \* committed Transaction rows (a set of records, keyed by id)
    clock,         \* timestamps handed out so far (timezone.now() at creation)
    response,      \* what the last finished request reported to its caller
    requests,      \* SpecConc: the requests in flight and their local variables
    locks          \* SpecConc: row lock of each account row (holder or 0)

vars == <<accounts, transactions, clock, response, requests, locks>>

\* --------------------------------------------------------------- the model
get_minimum_balance(kind) ==
    IF kind = "savings" THEN SAVINGS_MINIMUM_BALANCE ELSE CURRENT_MINIMUM_BALANCE

\* Model.objects.get(account_number=n, is_active=True): the lookup with the
\* customer filter left out.
ModelGet_any_customer(accts, kind, n, user) ==
    /\ n \in AccountNumbers
    /\ accts[n].kind = kind
    /\ accts[n].is_active

\* Model.objects.get(account_number=n, customer=user): the lookup with the
\* is_active filter left out.
ModelGet_any_active(accts, kind, n, user) ==
    /\ n \in AccountNumbers
    /\ accts[n].kind = kind
    /\ (user = "any" \/ accts[n].customer = user)

\* Model.objects.get(account_number=n, customer=user, is_active=True) on the
\* table of one variant; user = "any" leaves the owner filter out.
ModelGet(accts, kind, n, user) ==
    /\ n \in AccountNumbers
    /\ accts[n].kind = kind
    /\ accts[n].is_active
    /\ (user = "any" \/ accts[n].customer = user)

\* The in-memory model instance a lookup returns.
Instance(accts, n) ==
    [account_number |-> n, kind |-> accts[n].kind, balance |-> accts[n].balance]

NotFound == [account_number |-> 0, kind |-> "none", balance |-> 0]

\* try SavingsAccount.objects.get(...) except DoesNotExist:
\*     try CurrentAccount.objects.get(...) except DoesNotExist: not found
FindAccount(accts, n, user) ==
    IF ModelGet(accts, "savings", n, user) THEN Instance(accts, n)
    ELSE IF ModelGet(accts, "current", n, user) THEN Instance(accts, n)
    ELSE NotFound

NewTransaction(obj, type, amount, balance_after, now, op) ==
    [id |-> now, account |-> obj.account_number, transaction_type |-> type,
     amount |-> amount, balance_after |-> balance_after,
     description |-> PlainDescription, timestamp |-> now, op |-> op]

\* Account.deposit(amount) on an in-memory instance: the new instance balance
\* (which save() writes to the row) and the Transaction row it creates.
deposit(obj, amount, now, op) ==
    IF amount <= 0
    THEN [ok |-> FALSE, error |-> "InvalidAmount", balance |-> obj.balance,
          tx |-> {}]
    ELSE [ok |-> TRUE, error |-> "none", balance |-> obj.balance + amount,
          tx |-> {NewTransaction(obj, DEPOSIT, amount, obj.balance + amount, now, op)}]

\* Account.withdraw(amount) on an in-memory instance.
withdraw(obj, amount, now, op) ==
    IF amount <= 0
    THEN [ok |-> FALSE, error |-> "InvalidAmount", balance |-> obj.balance,
          tx |-> {}]
    ELSE IF obj.balance - amount < get_minimum_balance(obj.kind)
    THEN [ok |-> FALSE, error |-> "InsufficientFunds", balance |-> obj.balance,
          tx |-> {}]
    ELSE [ok |-> TRUE, error |-> "none", balance |-> obj.balance - amount,
          tx |-> {NewTransaction(obj, WITHDRAWAL, amount, obj.balance - amount, now, op)}]

\* instance.save(): UPDATE of the row's balance with the instance's value.
SaveBalance(accts, n, balance) ==
    [accts EXCEPT ![n].balance = balance]

\* account.transactions: the Transaction rows of one account.
TransactionsOf(txs, n) == {t \in txs : t.account = n}

\* account.transactions.latest('timestamp')
latest(txs, n) ==
    CHOOSE t \in TransactionsOf(txs, n) :
        \A u \in TransactionsOf(txs, n) : u.timestamp <= t.timestamp

\* row.description = ...; row.transaction_type = ...; row.save()
Relabel(txs, t, type, description) ==
    (txs \ {u \in txs : u.id = t.id})
        \cup {[t EXCEPT !.transaction_type = type, !.description = description]}

\* ---------------------------------------------------------------- requests
NoRequest == [op |-> "none", user |-> "none", account_number |-> 0,
              to_account |-> 0, amount |-> 0, outcome |-> "none"]

Response(op, user, n, to, amount, outcome) ==
    [op |-> op, user |-> user, account_number |-> n, to_account |-> to,
     amount |-> amount, outcome |-> outcome]

\* Account numbers are generated at creation and never reused.
UnusedNumbers == {n \in AccountNumbers : accounts[n].kind = "none"}
NextAccountNumber == CHOOSE n \in UnusedNumbers : \A m \in UnusedNumbers : n <= m

Idle == /\ \A r \in DOMAIN requests : requests[r].pc = "idle"
        /\ \A n \in AccountNumbers : locks[n] = 0

\* ------------------------------------------- Spec: one view call per action

\* create_account, POST with a valid form: the row is created with balance 0
\* and committed, then the initial deposit is made on the new instance; an
\* exception of the deposit is caught and reported, the row stays.
create_account(user, account_type, initial_deposit) ==
    /\ Idle
    /\ UnusedNumbers # {}
    /\ clock < MaxClock
    /\ LET n       == NextAccountNumber
           created == [accounts EXCEPT ![n] =
                          [kind |-> account_type, customer |-> user,
                           balance |-> 0, is_active |-> TRUE]]
           d       == deposit(Instance(created, n), initial_deposit, clock + 1, 0)
       IN  IF d.ok
           THEN /\ accounts' = SaveBalance(created, n, d.balance)
                /\ transactions' = transactions \cup d.tx
                /\ clock' = clock + 1
                /\ response' = Response("create_account", user, n, 0,
                                        initial_deposit, "ok")
           ELSE /\ accounts' = created
                /\ UNCHANGED <<transactions, clock>>
                /\ response' = Response("create_account", user, n, 0,
                                        initial_deposit, d.error)
    /\ UNCHANGED <<requests, locks>>

\* deposit_money whose deposit inserts the Transaction row but does not save
\* the new balance to the account's row.
deposit_money_unsaved(user, account_number, amount) ==
    /\ Idle
    /\ clock < MaxClock
    /\ LET account == FindAccount(accounts, account_number, user)
           d       == deposit(account, amount, clock + 1, 0)
       IN  IF account = NotFound
           THEN /\ UNCHANGED <<accounts, transactions, clock>>
                /\ response' = Response("deposit_money", user, account_number, 0,
                                        amount, "AccountNotFound")
           ELSE IF ~d.ok
           THEN /\ UNCHANGED <<accounts, transactions, clock>>
                /\ response' = Response("deposit_money", user, account_number, 0,
                                        amount, d.error)
           ELSE /\ d.balance <= MaxBalance
                /\ UNCHANGED accounts
                /\ transactions' = transactions \cup d.tx
                /\ clock' = clock + 1
                /\ response' = Response("deposit_money", user, account_number, 0,
                                        amount, "ok")
    /\ UNCHANGED <<requests, locks>>

\* deposit_money, POST with a valid form.
deposit_money(user, account_number, amount) ==
    /\ Idle
    /\ clock < MaxClock
    /\ LET account == FindAccount(accounts, account_number, user)
           d       == deposit(account, amount, clock + 1, 0)
       IN  IF account = NotFound
           THEN /\ UNCHANGED <<accounts, transactions, clock>>
                /\ response' = Response("deposit_money", user, account_number, 0,
                                        amount, "AccountNotFound")
           ELSE IF ~d.ok
           THEN /\ UNCHANGED <<accounts, transactions, clock>>
                /\ response' = Response("deposit_money", user, account_number, 0,
                                        amount, d.error)
           ELSE /\ d.balance <= MaxBalance
                /\ accounts' = SaveBalance(accounts, account_number, d.balance)
                /\ transactions' = transactions \cup d.tx
                /\ clock' = clock + 1
                /\ response' = Response("deposit_money", user, account_number, 0,
                                        amount, "ok")
    /\ UNCHANGED <<requests, locks>>

\* withdraw_money that debits the row itself whenever the amount is positive,
\* without the refusal of Account.withdraw.
withdraw_money_unchecked(user, account_number, amount) ==
    /\ Idle
    /\ clock < MaxClock
    /\ LET account == FindAccount(accounts, account_number, user)
       IN  IF account = NotFound \/ amount <= 0
           THEN /\ UNCHANGED <<accounts, transactions, clock>>
                /\ response' = Response("withdraw_money", user, account_number, 0,
                                        amount, IF account = NotFound
                                                THEN "AccountNotFound"
                                                ELSE "InvalidAmount")
           ELSE /\ accounts' = SaveBalance(accounts, account_number,
                                           account.balance - amount)
                /\ transactions' = transactions \cup
                      {NewTransaction(account, WITHDRAWAL, amount,
                                      account.balance - amount, clock + 1, 0)}
                /\ clock' = clock + 1
                /\ response' = Response("withdraw_money", user, account_number, 0,
                                        amount, "ok")
    /\ UNCHANGED <<requests, locks>>

\* withdraw_money that also refuses a withdrawal leaving the balance exactly
\* at the minimum balance (the comparison off by one).
withdraw_money_strict(user, account_number, amount) ==
    /\ Idle
    /\ clock < MaxClock
    /\ LET account == FindAccount(accounts, account_number, user)
           w       == withdraw(account, amount, clock + 1, 0)
       IN  IF account = NotFound
           THEN /\ UNCHANGED <<accounts, transactions, clock>>
                /\ response' = Response("withdraw_money", user, account_number, 0,
                                        amount, "AccountNotFound")
           ELSE IF ~w.ok \/ w.balance = get_minimum_balance(account.kind)
           THEN /\ UNCHANGED <<accounts, transactions, clock>>
                /\ response' = Response("withdraw_money", user, account_number, 0,
                                        amount, IF w.ok THEN "InsufficientFunds"
                                                ELSE w.error)
           ELSE /\ accounts' = SaveBalance(accounts, account_number, w.balance)
                /\ transactions' = transactions \cup w.tx
                /\ clock' = clock + 1
                /\ response' = Response("withdraw_money", user, account_number, 0,
                                        amount, "ok")
    /\ UNCHANGED <<requests, locks>>

\* withdraw_money, POST with a valid form.
withdraw_money(user, account_number, amount) ==
    /\ Idle
    /\ clock < MaxClock
    /\ LET account == FindAccount(accounts, account_number, user)
           w       == withdraw(account, amount, clock + 1, 0)
       IN  IF account = NotFound
           THEN /\ UNCHANGED <<accounts, transactions, clock>>
                /\ response' = Response("withdraw_money", user, account_number, 0,
                                        amount, "AccountNotFound")
           ELSE IF ~w.ok
           THEN /\ UNCHANGED <<accounts, transactions, clock>>
                /\ response' = Response("withdraw_money", user, account_number, 0,
                                        amount, w.error)
           ELSE /\ accounts' = SaveBalance(accounts, account_number, w.balance)
                /\ transactions' = transactions \cup w.tx
                /\ clock' = clock + 1
                /\ response' = Response("withdraw_money", user, account_number, 0,
                                        amount, "ok")
    /\ UNCHANGED <<requests, locks>>

\* TransferBlock with the deposit made before the withdrawal and no rollback:
\* a refused withdrawal leaves the recipient credited.
TransferBlock_DepositFirst(accts, txs, from_account, to_account, amount, now, op) ==
    LET d      == deposit(to_account, amount, now + 1, op)
        accts1 == IF d.ok THEN SaveBalance(accts, to_account.account_number, d.balance)
                  ELSE accts
        txs1   == txs \cup d.tx
        w      == withdraw(from_account, amount, now + 2, op)
    IN  IF ~w.ok
        THEN [ok |-> FALSE, error |-> w.error, accounts |-> accts1,
              transactions |-> txs1, clock |-> IF d.ok THEN now + 1 ELSE now]
        ELSE [ok |-> TRUE, error |-> "none",
              accounts |-> SaveBalance(accts1, from_account.account_number, w.balance),
              transactions |-> txs1 \cup w.tx, clock |-> now + 2]

\* The body of the atomic block of transfer_money, run to its end on the two
\* instances looked up before it: withdraw, deposit, the two relabelings.
\* The result is the store the block commits.
TransferBlock(accts, txs, from_account, to_account, amount, now, op) ==
    LET w      == withdraw(from_account, amount, now + 1, op)
        accts1 == SaveBalance(accts, from_account.account_number, w.balance)
        txs1   == txs \cup w.tx
        d      == deposit(to_account, amount, now + 2, op)
        accts2 == SaveBalance(accts1, to_account.account_number, d.balance)
        txs2   == txs1 \cup d.tx
        last_withdrawal == latest(txs2, from_account.account_number)
        txs3   == Relabel(txs2, last_withdrawal, TRANSFER_OUT,
                          TransferTo(to_account.account_number))
        last_deposit == latest(txs3, to_account.account_number)
        txs4   == Relabel(txs3, last_deposit, TRANSFER_IN,
                          TransferFrom(from_account.account_number))
    IN  IF ~w.ok
        THEN [ok |-> FALSE, error |-> w.error, accounts |-> accts,
              transactions |-> txs, clock |-> now]
        ELSE [ok |-> TRUE, error |-> "none", accounts |-> accts2,
              transactions |-> txs4, clock |-> now + 2]

\* transfer_money, POST with a valid form.
transfer_money(user, account_number, to_account_number, amount) ==
    /\ Idle
    /\ clock + 2 <= MaxClock
    /\ LET from_account == FindAccount(accounts, account_number, user)
           to_account   == FindAccount(accounts, to_account_number, "any")
           b == TransferBlock(accounts, transactions, from_account, to_account,
                              amount, clock, 0)
       IN  IF from_account = NotFound
           THEN /\ UNCHANGED <<accounts, transactions, clock>>
                /\ response' = Response("transfer_money", user, account_number,
                                        to_account_number, amount, "AccountNotFound")
           ELSE IF to_account = NotFound
           THEN /\ UNCHANGED <<accounts, transactions, clock>>
                /\ response' = Response("transfer_money", user, account_number,
                                        to_account_number, amount, "RecipientNotFound")
           ELSE /\ b.ok => \A n \in AccountNumbers : b.accounts[n].balance <= MaxBalance
                /\ accounts' = b.accounts
                /\ transactions' = b.transactions
                /\ clock' = b.clock
                /\ response' = Response("transfer_money", user, account_number,
                                        to_account_number, amount,
                                        IF b.ok THEN "ok" ELSE b.error)
    /\ UNCHANGED <<requests, locks>>

\* ------------------------------- SpecConc: one statement of a view per action
MaxRequests == 2
Requests == 1 .. MaxRequests

\* Local variables of a request that has not arrived yet.
NoLocal ==
    [pc |-> "idle", op |-> "none", user |-> "none", account_number |-> 0,
     to_account |-> 0, amount |-> 0, from_account |-> NotFound,
     to_instance |-> NotFound,   \* pend_*: rows written, not yet committed
     pend_accounts |-> << >>, pend_tx |-> {},
     outcome |-> "none", step |-> "none"]

Arrive(op, user, n, to, amount, from_account, pc) ==
    [NoLocal EXCEPT !.pc = pc, !.op = op, !.user = user, !.account_number = n,
                    !.to_account = to, !.amount = amount,
                    !.from_account = from_account]

\* The request ends: its instances and its open transaction are dropped, what
\* it reported and the statement it ended at are kept.
Finished(l, outcome) ==
    [NoLocal EXCEPT !.pc = "done", !.op = l.op, !.user = l.user,
                    !.account_number = l.account_number,
                    !.to_account = l.to_account, !.amount = l.amount,
                    !.outcome = outcome, !.step = l.pc]

\* Row locks: an UPDATE of an account row takes the row's lock; inside
\* atomic() the lock is kept until commit or rollback.
CanLock(r, n)  == locks[n] = 0 \/ locks[n] = r
Release(r)     == [n \in AccountNumbers |-> IF locks[n] = r THEN 0 ELSE locks[n]]

\* What the statements of request r's open transaction read: the committed
\* rows, overlaid with the rows the transaction itself wrote.
ViewTransactions(r) ==
    {t \in transactions : \A u \in requests[r].pend_tx : u.id # t.id}
        \cup requests[r].pend_tx

\* lines 217-232 / 266-282: the owned, active account is loaded.
single_lookup(r, op, user, account_number, amount) ==
    /\ requests[r].pc = "idle"
    /\ LET account == FindAccount(accounts, account_number, user)
       IN  requests' = [requests EXCEPT ![r] =
              IF account = NotFound
              THEN Finished(Arrive(op, user, account_number, 0, amount, account,
                                   "lookup"), "AccountNotFound")
              ELSE Arrive(op, user, account_number, 0, amount, account, op)]
    /\ UNCHANGED <<accounts, transactions, clock, response, locks>>

deposit_money_lookup(r, user, account_number, amount) ==
    single_lookup(r, "deposit", user, account_number, amount)

withdraw_money_lookup(r, user, account_number, amount) ==
    single_lookup(r, "withdraw", user, account_number, amount)

\* line 241: account.deposit(amount) outside any transaction (autocommit).
deposit_money_deposit(r) ==
    /\ requests[r].pc = "deposit"
    /\ LET l == requests[r]
           d == deposit(l.from_account, l.amount, clock + 1, r)
       IN  IF ~d.ok
           THEN /\ requests' = [requests EXCEPT ![r] = Finished(l, d.error)]
                /\ UNCHANGED <<accounts, transactions, clock>>
           ELSE /\ CanLock(r, l.account_number)
                /\ accounts' = SaveBalance(accounts, l.account_number, d.balance)
                /\ transactions' = transactions \cup d.tx
                /\ clock' = clock + 1
                /\ requests' = [requests EXCEPT ![r] = Finished(l, "ok")]
    /\ UNCHANGED <<response, locks>>

\* withdraw_money_withdraw with the debit done by the database on the stored
\* row (UPDATE ... SET balance = balance - amount) after the check on the
\* instance.
withdraw_money_withdraw_decrement(r) ==
    /\ requests[r].pc = "withdraw"
    /\ LET l == requests[r]
           w == withdraw(l.from_account, l.amount, clock + 1, r)
       IN  IF ~w.ok
           THEN /\ requests' = [requests EXCEPT ![r] = Finished(l, w.error)]
                /\ UNCHANGED <<accounts, transactions, clock>>
           ELSE /\ CanLock(r, l.account_number)
                /\ accounts' = SaveBalance(accounts, l.account_number,
                                           accounts[l.account_number].balance - l.amount)
                /\ transactions' = transactions \cup w.tx
                /\ clock' = clock + 1
                /\ requests' = [requests EXCEPT ![r] = Finished(l, "ok")]
    /\ UNCHANGED <<response, locks>>

\* line 291: account.withdraw(amount) outside any transaction (autocommit).
withdraw_money_withdraw(r) ==
    /\ requests[r].pc = "withdraw"
    /\ LET l == requests[r]
           w == withdraw(l.from_account, l.amount, clock + 1, r)
       IN  IF ~w.ok
           THEN /\ requests' = [requests EXCEPT ![r] = Finished(l, w.error)]
                /\ UNCHANGED <<accounts, transactions, clock>>
           ELSE /\ CanLock(r, l.account_number)
                /\ accounts' = SaveBalance(accounts, l.account_number, w.balance)
                /\ transactions' = transactions \cup w.tx
                /\ clock' = clock + 1
                /\ requests' = [requests EXCEPT ![r] = Finished(l, "ok")]
    /\ UNCHANGED <<response, locks>>

\* lines 319-335: the sender's account is loaded.
transfer_money_lookup(r, user, account_number, to_account_number, amount) ==
    /\ requests[r].pc = "idle"
    /\ LET from_account == FindAccount(accounts, account_number, user)
           l == Arrive("transfer", user, account_number, to_account_number,
                       amount, from_account, "recipient")
       IN  requests' = [requests EXCEPT ![r] =
              IF from_account = NotFound
              THEN Finished([l EXCEPT !.pc = "lookup"], "AccountNotFound")
              ELSE l]
    /\ UNCHANGED <<accounts, transactions, clock, response, locks>>

\* lines 345-353: the recipient's account is loaded.
transfer_money_recipient(r) ==
    /\ requests[r].pc = "recipient"
    /\ LET l == requests[r]
           to_account == FindAccount(accounts, l.to_account, "any")
       IN  requests' = [requests EXCEPT ![r] =
              IF to_account = NotFound
              THEN Finished(l, "RecipientNotFound")
              ELSE [l EXCEPT !.pc = "atomic_withdraw", !.to_instance = to_account]]
    /\ UNCHANGED <<accounts, transactions, clock, response, locks>>

\* transfer_money_withdraw without atomic(): the withdrawal is committed by
\* its own statement.
transfer_money_withdraw_autocommit(r) ==
    /\ requests[r].pc = "atomic_withdraw"
    /\ LET l == requests[r]
           w == withdraw(l.from_account, l.amount, clock + 1, r)
       IN  IF ~w.ok
           THEN /\ requests' = [requests EXCEPT ![r] = Finished(l, w.error)]
                /\ UNCHANGED <<clock, accounts, transactions>>
           ELSE /\ CanLock(r, l.account_number)
                /\ clock' = clock + 1
                /\ accounts' = SaveBalance(accounts, l.account_number, w.balance)
                /\ transactions' = transactions \cup w.tx
                /\ requests' = [requests EXCEPT ![r] =
                      [l EXCEPT !.pc = "atomic_deposit",
                                !.from_account.balance = w.balance]]
    /\ UNCHANGED <<locks, response>>

\* line 359, inside atomic(): from_account.withdraw(amount).
transfer_money_withdraw(r) ==
    /\ requests[r].pc = "atomic_withdraw"
    /\ LET l == requests[r]
           w == withdraw(l.from_account, l.amount, clock + 1, r)
       IN  IF ~w.ok
           THEN /\ requests' = [requests EXCEPT ![r] = Finished(l, w.error)]
                /\ UNCHANGED <<clock, locks>>
           ELSE /\ CanLock(r, l.account_number)
                /\ locks' = [locks EXCEPT ![l.account_number] = r]
                /\ clock' = clock + 1
                /\ requests' = [requests EXCEPT ![r] =
                      [l EXCEPT !.pc = "atomic_deposit",
                                !.from_account.balance = w.balance,
                                !.pend_accounts = (l.account_number :> w.balance) @@ l.pend_accounts,
                                !.pend_tx = l.pend_tx \cup w.tx]]
    /\ UNCHANGED <<accounts, transactions, response>>

\* line 362, inside atomic(): to_account.deposit(amount).
transfer_money_deposit(r) ==
    /\ requests[r].pc = "atomic_deposit"
    /\ LET l == requests[r]
           d == deposit(l.to_instance, l.amount, clock + 1, r)
       IN  /\ CanLock(r, l.to_account)
           /\ locks' = [locks EXCEPT ![l.to_account] = r]
           /\ clock' = clock + 1
           /\ requests' = [requests EXCEPT ![r] =
                 [l EXCEPT !.pc = "relabel_out",
                           !.to_instance.balance = d.balance,
                           !.pend_accounts = (l.to_account :> d.balance) @@ l.pend_accounts,
                           !.pend_tx = l.pend_tx \cup d.tx]]
    /\ UNCHANGED <<accounts, transactions, response>>

\* lines 365-368, inside atomic().
transfer_money_relabel_out(r) ==
    /\ requests[r].pc = "relabel_out"
    /\ LET l == requests[r]
           last_withdrawal == latest(ViewTransactions(r), l.account_number)
       IN  requests' = [requests EXCEPT ![r] =
              [l EXCEPT !.pc = "relabel_in",
                        !.pend_tx = Relabel(l.pend_tx, last_withdrawal, TRANSFER_OUT,
                                            TransferTo(l.to_account))]]
    /\ UNCHANGED <<accounts, transactions, clock, response, locks>>

\* lines 370-373, inside atomic().
transfer_money_relabel_in(r) ==
    /\ requests[r].pc = "relabel_in"
    /\ LET l == requests[r]
           last_deposit == latest(ViewTransactions(r), l.to_account)
       IN  requests' = [requests EXCEPT ![r] =
              [l EXCEPT !.pc = "commit",
                        !.pend_tx = Relabel(l.pend_tx, last_deposit, TRANSFER_IN,
                                            TransferFrom(l.account_number))]]
    /\ UNCHANGED <<accounts, transactions, clock, response, locks>>

\* line 357, leaving the with block without an exception: COMMIT.
transfer_money_commit(r) ==
    /\ requests[r].pc = "commit"
    /\ LET l == requests[r]
       IN  /\ accounts' = [n \in AccountNumbers |->
                 IF n \in DOMAIN l.pend_accounts
                 THEN [accounts[n] EXCEPT !.balance = l.pend_accounts[n]]
                 ELSE accounts[n]]
           /\ transactions' = ViewTransactions(r)
           /\ requests' = [requests EXCEPT ![r] = Finished(l, "ok")]
    /\ locks' = Release(r)
    /\ UNCHANGED <<clock, response>>

\* A statement sent to the database raises OperationalError (lock wait
\* timeout, deadlock victim, database is locked, lost connection). Inside
\* atomic() the exception leaves the with block, which rolls back; lines
\* 244, 296 and 380 catch it and report the failure.
AfterWithdrawal == {"atomic_deposit", "relabel_out", "relabel_in", "commit"}

\* OperationalError without the rollback of atomic(): what the request wrote
\* so far stays in the database.
OperationalError_NoRollback(r) ==
    /\ requests[r].pc \in {"deposit", "withdraw", "atomic_withdraw"} \cup AfterWithdrawal
    /\ accounts' = [n \in AccountNumbers |->
          IF n \in DOMAIN requests[r].pend_accounts
          THEN [accounts[n] EXCEPT !.balance = requests[r].pend_accounts[n]]
          ELSE accounts[n]]
    /\ transactions' = ViewTransactions(r)
    /\ requests' = [requests EXCEPT ![r] = Finished(requests[r], "StoreError")]
    /\ locks' = Release(r)
    /\ UNCHANGED <<clock, response>>

\* OperationalError swallowed inside the atomic block: the statement is
\* issued again, the transaction and its row locks are kept.
OperationalError_RetryStatement(r) ==
    /\ requests[r].pc \in {"deposit", "withdraw", "atomic_withdraw"} \cup AfterWithdrawal
    /\ UNCHANGED vars

OperationalError(r) ==
    /\ requests[r].pc \in {"deposit", "withdraw", "atomic_withdraw"} \cup AfterWithdrawal
    /\ requests' = [requests EXCEPT ![r] = Finished(requests[r], "StoreError")]
    /\ locks' = Release(r)
    /\ UNCHANGED <<accounts, transactions, clock, response>>

\* ------------------------------------------------------------ specifications
Init ==
    /\ accounts = [n \in AccountNumbers |-> NoAccount]
    /\ transactions = {}
    /\ clock = 0
    /\ response = NoRequest
    /\ requests = [r \in Requests |-> NoLocal]
    /\ locks = [n \in AccountNumbers |-> 0]

Next ==
    \/ \E u \in Customers, k \in AccountTypes, a \in Amounts : create_account(u, k, a)
    \/ \E u \in Customers, n \in AccountNumbers, a \in Amounts : deposit_money(u, n, a)
    \/ \E u \in Customers, n \in AccountNumbers, a \in WithdrawalAmounts :
           withdraw_money(u, n, a)
    \/ \E u \in Customers, n \in AccountNumbers, m \in AccountNumbers, a \in Amounts :
           transfer_money(u, n, m, a)

Spec == Init /\ [][Next]_vars

\* The database SpecConc starts from: what
\*   create_account(alice, savings, 2); deposit_money(alice, 1, 2);
\*   create_account(bob, current, 2)
\* leave behind.
SeedAccounts ==
    [n \in AccountNumbers |->
        IF n = 1 THEN [kind |-> "savings", customer |-> "alice", balance |-> 4,
                       is_active |-> TRUE]
        ELSE IF n = 2 THEN [kind |-> "current", customer |-> "bob", balance |-> 2,
                            is_active |-> TRUE]
        ELSE NoAccount]

SeedTransactions ==
    {NewTransaction([account_number |-> 1], DEPOSIT, 2, 2, 1, 0),
     NewTransaction([account_number |-> 1], DEPOSIT, 2, 4, 2, 0),
     NewTransaction([account_number |-> 2], DEPOSIT, 2, 2, 3, 0)}

InitConc ==
    /\ accounts = SeedAccounts
    /\ transactions = SeedTransactions
    /\ clock = 3
    /\ response = NoRequest
    /\ requests = [r \in Requests |-> NoLocal]
    /\ locks = [n \in AccountNumbers |-> 0]

Step(r) ==
    \/ \E u \in Customers, n \in AccountNumbers, a \in Amounts :
           deposit_money_lookup(r, u, n, a)
    \/ \E u \in Customers, n \in AccountNumbers, a \in Amounts :
           withdraw_money_lookup(r, u, n, a)
    \/ deposit_money_deposit(r)
    \/ withdraw_money_withdraw(r)
    \/ \E u \in Customers, n \in AccountNumbers, m \in AccountNumbers, a \in Amounts :
           transfer_money_lookup(r, u, n, m, a)
    \/ transfer_money_recipient(r)
    \/ transfer_money_withdraw(r)
    \/ transfer_money_deposit(r)
    \/ transfer_money_relabel_out(r)
    \/ transfer_money_relabel_in(r)
    \/ transfer_money_commit(r)
    \/ OperationalError(r)

NextConc == \E r \in Requests : Step(r)

SpecConc == InitConc /\ [][NextConc]_vars

\* A request that has arrived is served: the worker runs its next statement,
\* and a statement that waits for a row lock is ended by the database
\* (deadlock detection, lock wait timeout) with OperationalError.
Serve(r) ==
    \/ deposit_money_deposit(r)
    \/ withdraw_money_withdraw(r)
    \/ transfer_money_recipient(r)
    \/ transfer_money_withdraw(r)
    \/ transfer_money_deposit(r)
    \/ transfer_money_relabel_out(r)
    \/ transfer_money_relabel_in(r)
    \/ transfer_money_commit(r)
    \/ OperationalError(r)

SpecConcFair == SpecConc /\ \A r \in Requests : WF_vars(Serve(r))

\* --------------------- SpecSoftDelete: the views over a store in which accounts
\* are deactivated

\* account_detail: the lookup, then a page rendered from the account; nothing
\* is written.
account_detail(user, account_number) ==
    /\ Idle
    /\ response' = Response("account_detail", user, account_number, 0, 0,
                            IF FindAccount(accounts, account_number, user) = NotFound
                            THEN "AccountNotFound" ELSE "ok")
    /\ UNCHANGED <<accounts, transactions, clock, requests, locks>>

\* transaction_history: the lookup, then a page rendered from the account's
\* transactions; nothing is written.
transaction_history(user, account_number) ==
    /\ Idle
    /\ response' = Response("transaction_history", user, account_number, 0, 0,
                            IF FindAccount(accounts, account_number, user) = NotFound
                            THEN "AccountNotFound" ELSE "ok")
    /\ UNCHANGED <<accounts, transactions, clock, requests, locks>>

\* Soft delete: is_active of an account's row is cleared (no view does it;
\* the row and its transactions stay).
deactivate(account_number) ==
    /\ Idle
    /\ accounts[account_number].kind # "none"
    /\ accounts[account_number].is_active
    /\ accounts' = [accounts EXCEPT ![account_number].is_active = FALSE]
    /\ response' = Response("deactivate", "none", account_number, 0, 0, "ok")
    /\ UNCHANGED <<transactions, clock, requests, locks>>

\* The store SpecSoftDelete starts from: what
\*   create_account(alice, savings, 2); create_account(bob, current, 2)
\* leave behind.
InitSoftDelete ==
    /\ accounts = [SeedAccounts EXCEPT ![1].balance = 2]
    /\ transactions = {NewTransaction([account_number |-> 1], DEPOSIT, 2, 2, 1, 0),
                       NewTransaction([account_number |-> 2], DEPOSIT, 2, 2, 2, 0)}
    /\ clock = 2
    /\ response = NoRequest
    /\ requests = [r \in Requests |-> NoLocal]
    /\ locks = [n \in AccountNumbers |-> 0]

NextSoftDelete ==
    \/ \E u \in Customers, n \in AccountNumbers, a \in Amounts : deposit_money(u, n, a)
    \/ \E u \in Customers, n \in AccountNumbers, a \in WithdrawalAmounts :
           withdraw_money(u, n, a)
    \/ \E u \in Customers, n \in AccountNumbers, m \in AccountNumbers, a \in Amounts :
           transfer_money(u, n, m, a)
    \/ \E u \in Customers, n \in AccountNumbers : account_detail(u, n)
    \/ \E u \in Customers, n \in AccountNumbers : transaction_history(u, n)
    \/ \E n \in AccountNumbers : deactivate(n)

SpecSoftDelete == InitSoftDelete /\ [][NextSoftDelete]_vars

\* ------------------------------ SpecDash: the dashboard over bounded stores
MaxDashAccounts == 3   \* accounts in a store the dashboard is rendered from
MaxLedger       == 6   \* transactions of one account in such a store

DashAccountNumbers == 1 .. MaxDashAccounts

PER_ACCOUNT_RECENT == 5     \* acc.transactions.all()[:5]
DASHBOARD_RECENT   == 10    \* recent_transactions[:10]

\* sum(acc.get_balance() for acc in accounts)
RECURSIVE SumBalances(_, _)
SumBalances(accts, S) ==
    IF S = {} THEN 0
    ELSE LET n == CHOOSE m \in S : TRUE
         IN  accts[n].balance + SumBalances(accts, S \ {n})

Min(a, b) == IF a <= b THEN a ELSE b

Range(seq) == {seq[i] : i \in DOMAIN seq}

\* seq[:k]
Slice(seq, k) == SubSeq(seq, 1, Min(k, Len(seq)))

\* sorted(S, key=lambda x: x.timestamp, reverse=True)
RECURSIVE SortByTimestampDesc(_)
SortByTimestampDesc(S) ==
    IF S = {} THEN << >>
    ELSE LET t == CHOOSE u \in S : \A v \in S : v.timestamp <= u.timestamp
         IN  <<t>> \o SortByTimestampDesc(S \ {t})

\* sorted(S, key=lambda x: x.timestamp): the sort without reverse=True.
RECURSIVE SortByTimestampAsc(_)
SortByTimestampAsc(S) ==
    IF S = {} THEN << >>
    ELSE LET t == CHOOSE u \in S : \A v \in S : v.timestamp >= u.timestamp
         IN  <<t>> \o SortByTimestampAsc(S \ {t})

\* acc.transactions.all(): the account's transactions, most recent first.
transactions_all(txs, n) == SortByTimestampDesc(TransactionsOf(txs, n))

\* Model.objects.filter(customer=user, is_active=True) on the table of one
\* variant.
ModelFilter(accts, kind, user) ==
    {n \in DOMAIN accts : /\ accts[n].kind = kind
                          /\ accts[n].customer = user
                          /\ accts[n].is_active}

\* for acc in accounts: recent_transactions.extend(acc.transactions.all()[:5])
RecentOf(txs, S) ==
    UNION {Range(Slice(transactions_all(txs, n), PER_ACCOUNT_RECENT)) : n \in S}

DashboardContext(user, total_balance, recent_transactions, total_accounts) ==
    [op |-> "dashboard", user |-> user, account_number |-> 0, to_account |-> 0,
     amount |-> 0, outcome |-> "ok", total_balance |-> total_balance,
     recent_transactions |-> recent_transactions,
     total_accounts |-> total_accounts]

\* dashboard whose sort has lost reverse=True.
dashboard_oldest_first(user) ==
    /\ Idle
    /\ LET savings_accounts == ModelFilter(accounts, "savings", user)
           current_accounts == ModelFilter(accounts, "current", user)
           total_balance == SumBalances(accounts, savings_accounts)
                              + SumBalances(accounts, current_accounts)
           recent_transactions ==
               RecentOf(transactions, savings_accounts)
                 \cup RecentOf(transactions, current_accounts)
       IN  response' = DashboardContext(
               user, total_balance,
               Slice(SortByTimestampAsc(recent_transactions), DASHBOARD_RECENT),
               Cardinality(savings_accounts) + Cardinality(current_accounts))
    /\ UNCHANGED <<accounts, transactions, clock, requests, locks>>

\* dashboard: the context the page is rendered from; nothing is written.
dashboard(user) ==
    /\ Idle
    /\ LET savings_accounts == ModelFilter(accounts, "savings", user)
           current_accounts == ModelFilter(accounts, "current", user)
           total_balance == SumBalances(accounts, savings_accounts)
                              + SumBalances(accounts, current_accounts)
           recent_transactions ==
               RecentOf(transactions, savings_accounts)
                 \cup RecentOf(transactions, current_accounts)
       IN  response' = DashboardContext(
               user, total_balance,
               Slice(SortByTimestampDesc(recent_transactions), DASHBOARD_RECENT),
               Cardinality(savings_accounts) + Cardinality(current_accounts))
    /\ UNCHANGED <<accounts, transactions, clock, requests, locks>>

\* The moment the k-th transaction of account n is inserted when the accounts
\* hold count[n] transactions each: one account after the other ("blocks"),
\* or the accounts taking turns ("turns").
InsertedAt(count, order, n, k) ==
    IF order = "blocks"
    THEN Cardinality({<<m, j>> \in DashAccountNumbers \X (1 .. MaxLedger) :
                          /\ j <= count[m]
                          /\ (m < n \/ (m = n /\ j <= k))})
    ELSE Cardinality({<<m, j>> \in DashAccountNumbers \X (1 .. MaxLedger) :
                          /\ j <= count[m]
                          /\ (j < k \/ (j = k /\ m <= n))})

\* The stores SpecDash starts from: each account was created by
\* create_account with an initial deposit of 1 (0 for an empty ledger) and
\* received deposits of 1, some accounts were deactivated.
InitDash ==
    \E count \in [DashAccountNumbers -> 0 .. MaxLedger],
       owner \in [DashAccountNumbers -> Customers],
       active \in [DashAccountNumbers -> BOOLEAN],
       order \in {"blocks", "turns"} :
        /\ owner[1] = "alice"
        /\ accounts = [n \in DashAccountNumbers |->
                          [kind |-> IF n = 2 THEN "current" ELSE "savings",
                           customer |-> owner[n], balance |-> count[n],
                           is_active |-> active[n]]]
        /\ transactions =
               {NewTransaction([account_number |-> n], DEPOSIT, 1, k,
                               InsertedAt(count, order, n, k), 0) :
                    <<n, k>> \in {p \in DashAccountNumbers \X (1 .. MaxLedger) :
                                      p[2] <= count[p[1]]}}
        /\ clock = Cardinality(transactions)
        /\ response = NoRequest
        /\ requests = [r \in Requests |-> NoLocal]
        /\ locks = [n \in AccountNumbers |-> 0]

NextDash == \E u \in Customers : dashboard(u)

SpecDash == InitDash /\ [][NextDash]_vars

\* -------------------------------------------------------------- properties
TotalBalance(accts) == SumBalances(accts, AccountNumbers)

Exists(n) == accounts[n].kind # "none"

\* C1: every transfer that completes successfully leaves the total of all
\* balances as it was, whatever account numbers the caller supplied.
C1_TransferKeepsTotal ==
    [][(response'.op = "transfer_money" /\ response'.outcome = "ok")
          => TotalBalance(accounts') = TotalBalance(accounts)]_vars

\* C2: after every completed operation every account's balance is at least
\* the minimum balance of its variant.
C2_BalanceAtLeastMinimum ==
    \A n \in AccountNumbers :
        Exists(n) => accounts[n].balance >= get_minimum_balance(accounts[n].kind)

\* C3: a transfer whose source and destination account number are the same
\* fails: it changes no balance and no transaction record.
C3_SelfTransferRejected ==
    [][(/\ response'.op = "transfer_money"
        /\ response'.account_number = response'.to_account)
          => /\ response'.outcome # "ok"
             /\ accounts' = accounts
             /\ transactions' = transactions]_vars

\* C4: a transfer that fails at the withdrawal step (insufficient funds or
\* invalid amount) makes no deposit and leaves the balances and the
\* transaction rows of every account as they were before the call.
C4_FailedWithdrawalChangesNothing ==
    [][(/\ response'.op = "transfer_money"
        /\ response'.outcome \in {"InsufficientFunds", "InvalidAmount"})
          => /\ accounts' = accounts
             /\ transactions' = transactions
             /\ clock' = clock]_vars

C4_Witness ==
    /\ response.op = "transfer_money"
    /\ response.outcome = "InsufficientFunds"
    /\ response.account_number # response.to_account
    /\ Exists(response.account_number) /\ Exists(response.to_account)
    /\ TransactionsOf(transactions, response.to_account) # {}

RECURSIVE SumAmounts(_)
SumAmounts(S) ==
    IF S = {} THEN 0
    ELSE LET t == CHOOSE u \in S : TRUE
         IN  t.amount + SumAmounts(S \ {t})

\* Credits minus debits of the committed records of account n.
LedgerNet(n) ==
    SumAmounts({t \in TransactionsOf(transactions, n) :
                    t.transaction_type \in {DEPOSIT, TRANSFER_IN}})
  - SumAmounts({t \in TransactionsOf(transactions, n) :
                    t.transaction_type \in {WITHDRAWAL, TRANSFER_OUT}})

StepBy(r)     == requests'[r] # requests[r]
IsTransfer(l) == l.op = "transfer"
InBlock(r)    == requests[r].pc \in {"atomic_withdraw"} \cup AfterWithdrawal
Done(r)       == requests[r].pc = "done"
RecordsBy(txs, r, n) == {t \in txs : t.op = r /\ t.account = n}

\* C5: a transfer that fails after its withdrawal was applied is rolled back
\* as a whole: no step of a transfer that does not end in success changes a
\* committed balance or record, and once the transfer has failed the
\* committed store holds no record of it and none of its row locks.
C5_FailedTransferRolledBack ==
    [][\A r \in Requests :
          (StepBy(r) /\ IsTransfer(requests'[r]) /\ requests'[r].outcome # "ok")
            => /\ accounts' = accounts
               /\ transactions' = transactions
               /\ requests'[r].pc = "done" =>
                     /\ \A t \in transactions' : t.op # r
                     /\ \A n \in AccountNumbers : locks'[n] # r]_vars

C5_Witness ==
    \E r \in Requests :
        /\ Done(r) /\ IsTransfer(requests[r])
        /\ requests[r].outcome = "StoreError"
        /\ requests[r].step \in {"relabel_out", "relabel_in", "commit"}
        /\ requests[r].account_number # requests[r].to_account

\* C6: a transfer is atomic to observers of the committed store: the source's
\* record of a transfer is committed iff the destination's is, and the step
\* of a transfer that changes the committed store at all installs the debit
\* and the credit together with both records.
C6_TransferAtomicToObservers ==
    /\ [](\A r \in Requests : IsTransfer(requests[r]) =>
            (RecordsBy(transactions, r, requests[r].account_number) # {}
               <=> RecordsBy(transactions, r, requests[r].to_account) # {}))
    /\ [][\A r \in Requests :
            (/\ StepBy(r) /\ IsTransfer(requests'[r])
             /\ (accounts' # accounts \/ transactions' # transactions))
              => LET from == requests'[r].account_number
                     to   == requests'[r].to_account
                 IN  /\ \E t \in RecordsBy(transactions', r, to) :
                            accounts'[to].balance = t.balance_after
                     /\ \E t \in RecordsBy(transactions', r, from) :
                            from # to => accounts'[from].balance = t.balance_after
                     /\ RecordsBy(transactions, r, from) = {}
                     /\ RecordsBy(transactions, r, to) = {}]_vars

\* A transfer has written both rows inside its transaction while another
\* request reads the source row: it sees the committed, undebited balance.
C6_Witness ==
    \E r, q \in Requests :
        /\ r # q
        /\ requests[r].pc = "commit"
        /\ requests[r].account_number # requests[r].to_account
        /\ DOMAIN requests[r].pend_accounts =
              {requests[r].account_number, requests[r].to_account}
        /\ requests[q].pc \in {"deposit", "withdraw", "recipient"}
        /\ requests[q].account_number = requests[r].account_number
        /\ requests[q].from_account.balance
              # requests[r].pend_accounts[requests[r].account_number]

\* C7: once all concurrent requests have finished, every account's balance
\* is its credits minus its debits: no update was lost. (Stated for runs
\* without a transfer from an account to itself.)
C7_NoLostUpdate ==
    (/\ \A r \in Requests : requests[r].pc \in {"idle", "done"}
     /\ \A r \in Requests :
           IsTransfer(requests[r]) =>
               requests[r].account_number # requests[r].to_account)
      => \A n \in AccountNumbers : Exists(n) => accounts[n].balance = LedgerNet(n)

Opposite(r, q) ==
    /\ r # q
    /\ IsTransfer(requests[r]) /\ IsTransfer(requests[q])
    /\ InBlock(r) /\ InBlock(q)
    /\ requests[r].account_number = requests[q].to_account
    /\ requests[r].to_account = requests[q].account_number
    /\ requests[r].account_number # requests[r].to_account

C9_TransferRelabelsOwnRecords ==
    [][(response'.op = "transfer_money" /\ response'.outcome = "ok")
          => LET new  == transactions' \ transactions
                 outs == {t \in new :
                            /\ t.account = response'.account_number
                            /\ t.transaction_type = TRANSFER_OUT
                            /\ t.amount = response'.amount
                            /\ t.description = TransferTo(response'.to_account)}
                 ins  == {t \in new :
                            /\ t.account = response'.to_account
                            /\ t.transaction_type = TRANSFER_IN
                            /\ t.amount = response'.amount
                            /\ t.description = TransferFrom(response'.account_number)}
             IN  /\ Cardinality(outs) = 1
                 /\ Cardinality(ins) = 1
                 /\ new = outs \cup ins
                 /\ transactions \subseteq transactions']_vars

\* The rows request r's statements see, while r is inside its atomic block.
SameRow(t, u) ==
    /\ u.id = t.id
    /\ u.account = t.account
    /\ u.amount = t.amount
    /\ u.balance_after = t.balance_after

AllowedRelabel(t, u) ==
    \/ u.transaction_type = t.transaction_type
    \/ t.transaction_type = WITHDRAWAL /\ u.transaction_type = TRANSFER_OUT
    \/ t.transaction_type = DEPOSIT /\ u.transaction_type = TRANSFER_IN

\* C10: a Transaction row keeps its account, amount and balance_after, its
\* type changes only from WITHDRAWAL to TRANSFER_OUT or from DEPOSIT to
\* TRANSFER_IN (hence at most once), and no committed row is deleted.
C10_RecordMutatedOnlyByRelabel ==
    [][/\ \A r \in Requests :
            \A t \in ViewTransactions(r) : \A u \in ViewTransactions(r)' :
                u.id = t.id => SameRow(t, u) /\ AllowedRelabel(t, u)
       /\ \A t \in transactions : \E u \in transactions' : u.id = t.id]_vars

\* C11: under any interleaving of concurrent withdrawals and transfers that
\* debit the same account, no committed balance is below the minimum balance
\* of its account.
C11_CommittedBalanceNeverBelowFloor ==
    \A n \in AccountNumbers :
        accounts[n].kind \in AccountTypes =>
            ~(accounts[n].balance < get_minimum_balance(accounts[n].kind))

\* Two concurrent requests have debited the same account, each successfully,
\* by amounts that together exceed what the account held above its floor.
C11_Witness ==
    \E r, q \in Requests :
        /\ r # q
        /\ Done(r) /\ Done(q)
        /\ requests[r].outcome = "ok" /\ requests[q].outcome = "ok"
        /\ requests[r].op \in {"withdraw", "transfer"}
        /\ requests[q].op \in {"withdraw", "transfer"}
        /\ requests[r].account_number = requests[q].account_number
        /\ requests[r].amount + requests[q].amount >
              SeedAccounts[requests[r].account_number].balance
                - get_minimum_balance(SeedAccounts[requests[r].account_number].kind)

\* C12: a withdrawal of a positive amount succeeds iff balance - amount is at
\* least the minimum balance; on success the balance decreases by exactly
\* the amount, on InsufficientFunds balance and transaction rows stay.
C12_WithdrawSucceedsIffFloorKept ==
    [][(/\ response'.op = "withdraw_money"
        /\ response'.amount > 0
        /\ response'.outcome # "AccountNotFound")
          => LET n == response'.account_number
                 a == response'.amount
             IN  /\ response'.outcome = "ok"
                      <=> accounts[n].balance - a >= get_minimum_balance(accounts[n].kind)
                 /\ response'.outcome = "ok"
                      => accounts'[n].balance = accounts[n].balance - a
                 /\ response'.outcome # "ok"
                      => /\ response'.outcome = "InsufficientFunds"
                         /\ accounts' = accounts
                         /\ transactions' = transactions]_vars

\* A savings account one unit above its floor has just refused a withdrawal
\* of two units.
C12_Witness ==
    /\ response.op = "withdraw_money"
    /\ response.outcome = "InsufficientFunds"
    /\ response.amount = 2
    /\ accounts[response.account_number].kind = "savings"
    /\ accounts[response.account_number].balance = SAVINGS_MINIMUM_BALANCE + 1

WithdrawFound ==
    /\ response'.op = "withdraw_money"
    /\ response'.outcome # "AccountNotFound"

MinimumOf(n) == get_minimum_balance(accounts[n].kind)

\* C13: withdrawing minimumBalance + 1 from an account whose balance is
\* exactly minimumBalance + 1 succeeds and leaves the balance exactly
\* minimumBalance; withdrawing one more unit then fails with
\* InsufficientFunds.
C13_WithdrawFloorPlusOne ==
    [][WithdrawFound =>
          LET n == response'.account_number
          IN  /\ (/\ accounts[n].balance = MinimumOf(n) + 1
                  /\ response'.amount = MinimumOf(n) + 1)
                    => /\ response'.outcome = "ok"
                       /\ accounts'[n].balance = MinimumOf(n)
              /\ (accounts[n].balance = MinimumOf(n) /\ response'.amount = 1)
                    => response'.outcome = "InsufficientFunds"]_vars

\* C13, amended: withdrawing 1 from an account whose balance is exactly
\* minimumBalance + 1 succeeds and leaves the balance exactly
\* minimumBalance; withdrawing one more unit then fails with
\* InsufficientFunds and changes nothing.
C13_WithdrawDownToFloor ==
    [][WithdrawFound =>
          LET n == response'.account_number
          IN  /\ (accounts[n].balance = MinimumOf(n) + 1 /\ response'.amount = 1)
                    => /\ response'.outcome = "ok"
                       /\ accounts'[n].balance = MinimumOf(n)
              /\ (accounts[n].balance = MinimumOf(n) /\ response'.amount = 1)
                    => /\ response'.outcome = "InsufficientFunds"
                       /\ accounts' = accounts
                       /\ transactions' = transactions]_vars

\* A savings account has been drawn down to exactly its floor by a
\* withdrawal of one unit.
C13_Witness ==
    /\ response.op = "withdraw_money"
    /\ response.outcome = "ok"
    /\ response.amount = 1
    /\ accounts[response.account_number].kind = "savings"
    /\ accounts[response.account_number].balance = SAVINGS_MINIMUM_BALANCE

NewRecordsOf(n) == TransactionsOf(transactions', n) \ TransactionsOf(transactions, n)

\* C14: every committed balance change of an account comes with exactly one
\* new transaction record of that account, and every account's balance
\* equals the credits minus the debits of its records.
C14_BalanceMatchesLedger ==
    [][\A n \in AccountNumbers :
          Exists(n)' =>
              /\ accounts'[n].balance # accounts[n].balance
                    => Cardinality(NewRecordsOf(n)) = 1
              /\ accounts'[n].balance = LedgerNet(n)']_vars

Debits == {WITHDRAWAL, TRANSFER_OUT}

ForeignTo(user, n) == Exists(n) /\ accounts[n].customer # user

Inactive(n) == n \in AccountNumbers /\ Exists(n) /\ ~accounts[n].is_active

\* C16: a deposit, withdrawal, transfer, detail or history request that
\* names an inactive account (for a transfer: as source or as destination)
\* fails as an account that is not found and changes no balance and no
\* transaction record.
C16_InactiveAccountNotFound ==
    [][/\ (/\ response'.op \in {"deposit_money", "withdraw_money", "transfer_money",
                                "account_detail", "transaction_history"}
           /\ Inactive(response'.account_number))
             => /\ response'.outcome = "AccountNotFound"
                /\ accounts' = accounts
                /\ transactions' = transactions
       /\ (/\ response'.op = "transfer_money"
           /\ Inactive(response'.to_account))
             => /\ response'.outcome \in {"AccountNotFound", "RecipientNotFound"}
                /\ accounts' = accounts
                /\ transactions' = transactions]_vars

\* A transfer from the caller's active account has named an inactive account
\* as its destination.
C16_Witness ==
    /\ response.op = "transfer_money"
    /\ response.outcome = "RecipientNotFound"
    /\ Inactive(response.to_account)
    /\ accounts[response.account_number].customer = response.user
    /\ accounts[response.account_number].is_active

DepositThenWithdraw ==
    /\ response.op = "deposit_money"
    /\ response.outcome = "ok"
    /\ response'.op = "withdraw_money"
    /\ response'.user = response.user
    /\ response'.account_number = response.account_number
    /\ response'.amount = response.amount

\* C17: a successful deposit of x into account a raises its balance by
\* exactly x with one record appended, and a withdrawal of the same x from a
\* that follows it, with x <= balance after the deposit - minimum balance,
\* succeeds and lowers the balance by exactly x with one record appended: the
\* balance is back at its value before the deposit.
C17_DepositThenWithdrawRestores ==
    [][LET n == response'.account_number
           x == response'.amount
       IN  /\ (response'.op = "deposit_money" /\ response'.outcome = "ok")
                 => /\ x > 0
                    /\ accounts'[n].balance = accounts[n].balance + x
                    /\ Cardinality(NewRecordsOf(n)) = 1
                    /\ \A t \in NewRecordsOf(n) :
                           /\ t.transaction_type = DEPOSIT
                           /\ t.amount = x
                           /\ t.balance_after = accounts'[n].balance
           /\ (DepositThenWithdraw /\ x <= accounts[n].balance - MinimumOf(n))
                 => /\ response'.outcome = "ok"
                    /\ accounts'[n].balance = accounts[n].balance - x
                    /\ Cardinality(NewRecordsOf(n)) = 1
                    /\ \A t \in NewRecordsOf(n) :
                           /\ t.transaction_type = WITHDRAWAL
                           /\ t.amount = x
                           /\ t.balance_after = accounts'[n].balance]_vars

\* A withdrawal of x has succeeded right after a deposit of x into the same
\* account, and the balance is the one before the deposit.
C17_Witness ==
    /\ response.op = "withdraw_money"
    /\ response.outcome = "ok"
    /\ \E d, w \in TransactionsOf(transactions, response.account_number) :
           /\ d.transaction_type = DEPOSIT
           /\ w.transaction_type = WITHDRAWAL
           /\ w.timestamp = clock
           /\ d.timestamp + 1 = clock
           /\ d.amount = response.amount
           /\ w.amount = response.amount
           /\ accounts[response.account_number].balance = d.balance_after - d.amount

\* C18: account creation leaves no partial state: every account in the store
\* has its initial credit recorded as a DEPOSIT transaction (no account has
\* an empty ledger), and a create_account request that fails leaves no
\* account behind.
C18_NoAccountWithoutInitialDeposit ==
    [][/\ \A n \in AccountNumbers :
              Exists(n)' =>
                  \E t \in TransactionsOf(transactions', n) :
                      t.transaction_type = DEPOSIT
       /\ (response'.op = "create_account" /\ response'.outcome # "ok")
             => accounts' = accounts]_vars

Shown == Range(response.recent_transactions)

OwnActive(user) ==
    {n \in DOMAIN accounts : accounts[n].customer = user /\ accounts[n].is_active}

Descending(seq) ==
    \A i, j \in DOMAIN seq : i < j => seq[i].timestamp > seq[j].timestamp

\* C19: the dashboard's total balance is the sum of the balances of the
\* customer's active accounts of both variants, and its recent-transaction
\* list holds, most recent first, the 10 most recent transactions of the
\* customer's active accounts overall, or all of them when there are fewer
\* than 10.
C19_DashboardTenMostRecentOverall ==
    response.op = "dashboard" =>
        LET all == {t \in transactions : t.account \in OwnActive(response.user)}
        IN  /\ response.total_balance = SumBalances(accounts, OwnActive(response.user))
            /\ Shown \subseteq all
            /\ Len(response.recent_transactions)
                   = Min(DASHBOARD_RECENT, Cardinality(all))
            /\ Descending(response.recent_transactions)
            /\ \A t \in all \ Shown : \A u \in Shown : u.timestamp > t.timestamp

\* The transactions of the customer's active accounts that are among the 5
\* most recent of their own account.
Candidates(user) ==
    {t \in transactions :
        /\ t.account \in OwnActive(user)
        /\ Cardinality({u \in TransactionsOf(transactions, t.account) :
                            u.timestamp > t.timestamp}) < PER_ACCOUNT_RECENT}

\* C19, amended: the total balance is as stated, and the recent-transaction
\* list is the merge of the 5 most recent transactions of each of the
\* customer's active accounts, sorted by timestamp descending and truncated
\* to 10.
C19_DashboardRecentPerAccount ==
    response.op = "dashboard" =>
        LET all == Candidates(response.user)
        IN  /\ response.total_balance = SumBalances(accounts, OwnActive(response.user))
            /\ Shown \subseteq all
            /\ Len(response.recent_transactions)
                   = Min(DASHBOARD_RECENT, Cardinality(all))
            /\ Descending(response.recent_transactions)
            /\ \A t \in all \ Shown : \A u \in Shown : u.timestamp > t.timestamp

\* A dashboard has been rendered on which both limits cut: the list is full,
\* one of the account's transactions is left out for being older than five
\* others of its account, and another for being older than the ten shown.
C19_Witness ==
    /\ response.op = "dashboard"
    /\ Len(response.recent_transactions) = DASHBOARD_RECENT
    /\ Candidates(response.user) \ Shown # {}
    /\ \E t \in transactions :
           t.account \in OwnActive(response.user) /\ t \notin Candidates(response.user)

====
